---- MODULE Spec2Model ----
(***************************************************************************)
(* Model of hrf_sar.py: the continuous HackRF capture loop.                *)
(*                                                                         *)
(* Powers are fixed-point integers in tenths of a dBFS (-2.0 dBFS = -20).  *)
(* The average total_power / step_count is kept as the exact fraction      *)
(* [num, den]; IEEE-754 rounding of the float sum is not modelled.         *)
(* One status line is modelled by the list re.findall returns for it.      *)
(* The wall clock counts ticks, TicksPerSecond ticks to a second.          *)
(***************************************************************************)
EXTENDS Integers, Sequences, FiniteSets, TLC

\* ---------------------------------------------------------------- bounds
MaxSegments == 2
MaxLines == 9
MaxClock == 2
\* how far above the measured peak the squelch decision is probed, in tenths
MaxRise == 15
TicksPerSecond == 2

\* ------------------------------------------------------ program constants
\* max_power = float(-200)
InitMaxPower == -2000
\* if line_count > 6
SkipThreshold == 6
\* len(numeric_values) == 7
TelemetryTokens == 7
\* numeric_values[3], counted from one
PowerIndex == 4

\* ----------------------------------------------------------- input domains
\* the value "average power <p> dBfs" of a telemetry line
\* what one run can observe: a strong signal, a quiet band, a reading below
\* the initial max_power
Scenes == { {-20, -80}, {-300, -310}, {-2500, -20} }
Powers == UNION Scenes
\* --squelch_dbfs (default -29.0) and --delta_dbfs (default 1.1)
SquelchValues == {-290, -100}
GapValues == {11, 40}
\* exit codes of hackrf_transfer
ExitCodes == {0, 2}

\* re.findall(regex, line) of a telemetry line reporting power p
TelemetryLine(p) == <<81, 10, 81, p, 14272, 0, 0>>
\* re.findall(regex, line) of lines that are not telemetry: no number,
\* six numbers ("average power -inf dBfs"), eight numbers
OtherLines == { <<>>, <<81, 10, 81, 14272, 0, 0>>, <<81, 10, 81, -20, 14272, 0, 0, 5>> }
LinesOf(powers) == { TelemetryLine(p) : p \in powers } \cup OtherLines

None == <<>>
Some(x) == <<x>>

VARIABLES
    pc,                 \* position of the single thread of control
    args,               \* parsed command line and the directories it names
    now,                \* wall clock, in ticks
    ret,                \* value returned by main(), None while it runs
    exc,                \* the uncaught exception that ended the program, or None
    exit_code,          \* exit status of the python process, None while it runs
    seg,                \* number of loop iterations started
    full_filename_stem, \* stem of the current segment (its second)
    seg_start_time_utc, \* start time of the current segment (its tick)
    total_power, avg_power, max_power, step_count, line_count,
    capture_start_utc,  \* locals of capture_one_data_segment
    proc,               \* the Popen object: [alive, returncode] and whether its
                        \* stdout has been read to end-of-stream (eof)
    rc,                 \* local rc of capture_one_data_segment
    nread,              \* lines read from proc.stdout in this segment
    scene,              \* the powers the radio can report during this run
    fed,                \* the powers accumulated in this segment, in order
    keep_segment,
    meta_info_dict,     \* the two fields rewritten per segment
    tmpFiles,           \* stems with a .cs8 file in tmp_path
    dataFiles,          \* stems with a .sigmf-data file in out_path
    metaFiles,          \* stem -> contents of the .sigmf-meta file in out_path
    log                 \* per segment: what happened to it

vars == << pc, args, scene, now, ret, exc, exit_code, seg, full_filename_stem, seg_start_time_utc,
           total_power, avg_power, max_power, step_count, line_count,
           capture_start_utc, proc, rc, nread, fed, keep_segment,
           meta_info_dict, tmpFiles, dataFiles, metaFiles, log >>

captureLocals == << total_power, avg_power, max_power, step_count, line_count,
                    capture_start_utc, rc, fed >>
files == << tmpFiles, dataFiles, metaFiles >>

\* ------------------------------------------------------------- helpers
\* float(0) as a fraction
Zero == [num |-> 0, den |-> 1]

\* total_power / float(step_count)
Divide(total, count) == [num |-> total, den |-> count]

\* max_power - avg_power >= g, for avg_power a fraction with den > 0
DeltaAtLeast(mx, avg, g) == mx * avg.den - avg.num >= g * avg.den

\* compact_datetime_str: isoformat(timespec='seconds') drops the fraction
StemOf(t) == t \div TicksPerSecond

\* line 184 without its second disjunct
KeepDecisionGapOnly(mx, avg, squelch, gap) == DeltaAtLeast(mx, avg, gap)

\* line 184 with the squelch comparison turned round
KeepDecisionReversed(mx, avg, squelch, gap) ==
    DeltaAtLeast(mx, avg, gap) \/ (mx < squelch)

\* the condition of line 184
KeepDecision(mx, avg, squelch, gap) ==
    DeltaAtLeast(mx, avg, gap) \/ (mx > squelch)

\* line 37 with >= in place of >
PastStartupOffByOne(lc) == lc >= SkipThreshold

\* line_count > 6
PastStartup(lc) == lc > SkipThreshold

\* line 42 with >= in place of ==
IsTelemetryLoose(numeric_values) == Len(numeric_values) >= TelemetryTokens

\* numeric_values is not None and len(numeric_values) == 7
IsTelemetry(numeric_values) == Len(numeric_values) = TelemetryTokens

\* float(numeric_values[3])
StepPower(numeric_values) == numeric_values[PowerIndex]

\* lines 47-48 without the comparison
NewMaxLast(mx, step_power) == step_power

\* lines 47-48
NewMax(mx, step_power) == IF step_power > mx THEN step_power ELSE mx

Last(s) == s[Len(s)]

\* the output directory holds no metadata file
NoMeta == [s \in {} |-> None]

\* open(path, "w") followed by write(contents)
WriteFile(dir, path, contents) ==
    [s \in DOMAIN dir \cup {path} |-> IF s = path THEN contents ELSE dir[s]]

\* ---------------------------------------------------------------- Init
Init ==
    /\ pc = "main"
    /\ args \in { a \in [ squelch_dbfs : SquelchValues,
                          min_peak_gap_dbfs : GapValues,
                          same_dir : BOOLEAN,
                          out_isdir : BOOLEAN,
                          tmp_isdir : BOOLEAN ] :
                    a.same_dir => (a.tmp_isdir = a.out_isdir) }
    /\ scene \in Scenes
    /\ now = 0
    /\ ret = None
    /\ exc = None
    /\ exit_code = None
    /\ seg = 0
    /\ full_filename_stem = None
    /\ seg_start_time_utc = None
    /\ total_power = 0
    /\ avg_power = Zero
    /\ max_power = InitMaxPower
    /\ step_count = 0
    /\ line_count = 0
    /\ capture_start_utc = None
    /\ proc = [alive |-> FALSE, returncode |-> None, eof |-> FALSE]
    /\ rc = None
    /\ nread = 0
    /\ fed = <<>>
    /\ keep_segment = FALSE
    /\ meta_info_dict = [datetime |-> None, max_power_dbfs |-> 0]
    /\ tmpFiles = {}
    /\ dataFiles = {}
    /\ metaFiles = NoMeta
    /\ log = <<>>

\* ------------------------------------------------------------- actions
\* datetime.utcnow(): the clock has not gone back since it was last read
UtcNow == now..MaxClock

\* lines 94-100: a missing directory ends main with -1
CheckDirsFail ==
    /\ pc = "main"
    /\ ~args.out_isdir \/ ~args.tmp_isdir
    /\ pc' = "exit"
    /\ ret' = Some(-1)
    /\ UNCHANGED << args, scene, exit_code, now, exc, seg, full_filename_stem, seg_start_time_utc,
                    captureLocals, proc, nread, keep_segment, meta_info_dict,
                    files, log >>

\* lines 94-170 with the test of tmp_path (lines 98-100) left out
CheckDirsOkSkipsTmp ==
    /\ pc = "main"
    /\ args.out_isdir
    /\ pc' = "loop"
    /\ \E t \in UtcNow :
          /\ now' = t
          /\ meta_info_dict' = [datetime |-> Some(t), max_power_dbfs |-> 0]
    /\ UNCHANGED << args, scene, exit_code, ret, exc, seg, full_filename_stem,
                    seg_start_time_utc, captureLocals, proc, nread, keep_segment,
                    files, log >>

\* lines 94-170: both directories exist; the metadata structure is built once
CheckDirsOk ==
    /\ pc = "main"
    /\ args.out_isdir /\ args.tmp_isdir
    /\ pc' = "loop"
    /\ \E t \in UtcNow :
          /\ now' = t
          /\ meta_info_dict' = [datetime |-> Some(t), max_power_dbfs |-> 0]
    /\ UNCHANGED << args, scene, exit_code, ret, exc, seg, full_filename_stem, seg_start_time_utc,
                    captureLocals, proc, nread, keep_segment, files, log >>

\* lines 172-181 and 19-35: name the segment, reset the accumulator, spawn
BeginSegment ==
    /\ pc = "loop"
    /\ seg < MaxSegments
    /\ seg' = seg + 1
    /\ \E t \in UtcNow :
          /\ now' = t
          /\ seg_start_time_utc' = Some(t)
          /\ full_filename_stem' = Some(StemOf(t))
          /\ log' = Append(log, [stem |-> StemOf(t), alive |-> TRUE, rc |-> None,
                                 decided |-> FALSE, keep |-> FALSE,
                                 promoted |-> FALSE, meta |-> FALSE,
                                 finished |-> FALSE])
    /\ total_power' = 0
    /\ avg_power' = Zero
    /\ max_power' = InitMaxPower
    /\ step_count' = 0
    /\ line_count' = 0
    /\ capture_start_utc' = None
    /\ rc' = None
    /\ fed' = <<>>
    /\ nread' = 0
    /\ proc' = [alive |-> TRUE, returncode |-> None, eof |-> FALSE]
    /\ pc' = "reading"
    /\ UNCHANGED << args, scene, exit_code, ret, exc, keep_segment, meta_info_dict, files >>

\* lines 36-54 with the continue of line 53 written as a break: the first
\* line after the startup lines that is not telemetry ends the reading, and
\* the with block waits for the process with output still unread
ReadLineBreaks(numeric_values) ==
    /\ pc = "reading"
    /\ nread < MaxLines
    /\ nread' = nread + 1
    /\ IF PastStartup(line_count)
         THEN /\ IF capture_start_utc = None
                   THEN \E t \in UtcNow : now' = t /\ capture_start_utc' = Some(t)
                   ELSE UNCHANGED << now, capture_start_utc >>
              /\ IF IsTelemetry(numeric_values)
                   THEN /\ max_power' = NewMax(max_power, StepPower(numeric_values))
                        /\ total_power' = total_power + StepPower(numeric_values)
                        /\ step_count' = step_count + 1
                        /\ fed' = Append(fed, StepPower(numeric_values))
                        /\ line_count' = line_count + 1
                        /\ UNCHANGED << pc, proc, tmpFiles, log >>
                   ELSE /\ pc' = "exited"
                        /\ \E code \in ExitCodes :
                              proc' = [alive |-> FALSE, returncode |-> Some(code),
                                       eof |-> FALSE]
                        /\ tmpFiles' = tmpFiles \cup {Last(log).stem}
                        /\ log' = [log EXCEPT ![seg].alive = FALSE]
                        /\ UNCHANGED << max_power, total_power, step_count, fed,
                                        line_count >>
         ELSE /\ line_count' = line_count + 1
              /\ UNCHANGED << now, capture_start_utc, max_power, total_power,
                              step_count, fed, pc, proc, tmpFiles, log >>
    /\ UNCHANGED << args, scene, exit_code, ret, exc, seg, full_filename_stem,
                    seg_start_time_utc, avg_power, rc, keep_segment,
                    meta_info_dict, dataFiles, metaFiles >>

\* lines 36-54: one iteration of the loop over proc.stdout
ReadLine(numeric_values) ==
    /\ pc = "reading"
    /\ nread < MaxLines
    /\ nread' = nread + 1
    /\ IF PastStartup(line_count)
         THEN /\ IF capture_start_utc = None
                   THEN \E t \in UtcNow : now' = t /\ capture_start_utc' = Some(t)
                   ELSE UNCHANGED << now, capture_start_utc >>
              /\ IF IsTelemetry(numeric_values)
                   THEN /\ max_power' = NewMax(max_power, StepPower(numeric_values))
                        /\ total_power' = total_power + StepPower(numeric_values)
                        /\ step_count' = step_count + 1
                        /\ fed' = Append(fed, StepPower(numeric_values))
                        /\ line_count' = line_count + 1
                   ELSE UNCHANGED << max_power, total_power, step_count, fed,
                                     line_count >>
         ELSE /\ line_count' = line_count + 1
              /\ UNCHANGED << now, capture_start_utc, max_power, total_power,
                              step_count, fed >>
    /\ UNCHANGED << pc, args, scene, exit_code, ret, exc, seg, full_filename_stem,
                    seg_start_time_utc, avg_power, rc, proc, keep_segment,
                    meta_info_dict, files, log >>

\* line 36 ends and the with block of line 35 waits for the process:
\* the process has exited with some code, having created its file or not
\* (a run that exits 0 has written the file named by -r)
EndOfStream ==
    /\ pc = "reading"
    /\ \E code \in ExitCodes, created \in BOOLEAN :
          /\ (code = 0) => created
          /\ proc' = [alive |-> FALSE, returncode |-> Some(code), eof |-> TRUE]
          /\ tmpFiles' = IF created THEN tmpFiles \cup {Last(log).stem} ELSE tmpFiles
    /\ log' = [log EXCEPT ![seg].alive = FALSE]
    /\ pc' = "exited"
    /\ UNCHANGED << args, scene, exit_code, now, ret, exc, seg, full_filename_stem,
                    seg_start_time_utc, captureLocals, nread, keep_segment,
                    meta_info_dict, dataFiles, metaFiles >>

\* lines 56-63: read the exit code, compute the average, return
Finalize ==
    /\ pc = "exited"
    /\ rc' = proc.returncode
    /\ log' = [log EXCEPT ![seg].rc = proc.returncode]
    /\ IF proc.returncode # Some(0)
         THEN /\ pc' = "decide"
              /\ UNCHANGED << avg_power, exc >>
         ELSE IF step_count = 0
                THEN /\ pc' = "crashed"
                     /\ exc' = Some("ZeroDivisionError")
                     /\ UNCHANGED avg_power
                ELSE /\ pc' = "decide"
                     /\ avg_power' = Divide(total_power, step_count)
                     /\ UNCHANGED exc
    /\ UNCHANGED << args, scene, exit_code, now, ret, seg, full_filename_stem, seg_start_time_utc,
                    total_power, max_power, step_count, line_count,
                    capture_start_utc, fed, proc, nread, keep_segment,
                    meta_info_dict, files >>

\* lines 182-188 with the test of keep_segment left out
DecideBranchIgnored ==
    /\ pc = "decide"
    /\ keep_segment' = KeepDecision(max_power, avg_power, args.squelch_dbfs,
                                    args.min_peak_gap_dbfs)
    /\ pc' = "move"
    /\ log' = [log EXCEPT ![seg].decided = TRUE, ![seg].keep = keep_segment']
    /\ UNCHANGED << args, scene, exit_code, now, ret, exc, seg, full_filename_stem,
                    seg_start_time_utc, captureLocals, proc, nread,
                    meta_info_dict, files >>

\* lines 182-187: the squelch decision on what capture_one_data_segment returned
Decide ==
    /\ pc = "decide"
    /\ keep_segment' = KeepDecision(max_power, avg_power, args.squelch_dbfs,
                                    args.min_peak_gap_dbfs)
    /\ pc' = IF keep_segment' THEN "move" ELSE "remove"
    /\ log' = [log EXCEPT ![seg].decided = TRUE, ![seg].keep = keep_segment']
    /\ UNCHANGED << args, scene, exit_code, now, ret, exc, seg, full_filename_stem, seg_start_time_utc,
                    captureLocals, proc, nread, meta_info_dict, files >>

\* lines 188-196 with the loop going on right after the move, the metadata
\* of lines 198-206 not written
MoveOkThenLoop ==
    /\ pc = "move"
    /\ Last(log).stem \in tmpFiles
    /\ tmpFiles' = tmpFiles \ {Last(log).stem}
    /\ dataFiles' = dataFiles \cup {Last(log).stem}
    /\ log' = [log EXCEPT ![seg].promoted = TRUE]
    /\ pc' = "loop"
    /\ UNCHANGED << args, scene, exit_code, now, ret, exc, seg, full_filename_stem,
                    seg_start_time_utc, captureLocals, proc, nread, keep_segment,
                    meta_info_dict, metaFiles >>

\* lines 188-196: os.rename / shutil.move succeed (an existing target is replaced)
MoveOk ==
    /\ pc = "move"
    /\ Last(log).stem \in tmpFiles
    /\ tmpFiles' = tmpFiles \ {Last(log).stem}
    /\ dataFiles' = dataFiles \cup {Last(log).stem}
    /\ log' = [log EXCEPT ![seg].promoted = TRUE]
    /\ pc' = "meta"
    /\ UNCHANGED << args, scene, exit_code, now, ret, exc, seg, full_filename_stem, seg_start_time_utc,
                    captureLocals, proc, nread, keep_segment, meta_info_dict,
                    metaFiles >>

\* lines 192-196 with the failure of the move swallowed
MoveFailIgnored ==
    /\ pc = "move"
    /\ \/ /\ Last(log).stem \notin tmpFiles
          /\ UNCHANGED dataFiles
       \/ /\ Last(log).stem \in tmpFiles
          /\ \E copied \in BOOLEAN :
                /\ copied => ~args.same_dir
                /\ dataFiles' = IF copied THEN dataFiles \cup {Last(log).stem}
                                          ELSE dataFiles
    /\ pc' = "meta"
    /\ UNCHANGED << args, scene, exit_code, now, ret, exc, seg, full_filename_stem,
                    seg_start_time_utc, captureLocals, proc, nread, keep_segment,
                    meta_info_dict, tmpFiles, metaFiles, log >>

\* lines 192-196 with a clean-up of the temporary file when the move fails
MoveFailDropsFile ==
    /\ pc = "move"
    /\ \/ /\ Last(log).stem \notin tmpFiles
          /\ exc' = Some("FileNotFoundError")
          /\ UNCHANGED dataFiles
       \/ /\ Last(log).stem \in tmpFiles
          /\ exc' = Some("OSError")
          /\ \E copied \in BOOLEAN :
                /\ copied => ~args.same_dir
                /\ dataFiles' = IF copied THEN dataFiles \cup {Last(log).stem}
                                          ELSE dataFiles
    /\ tmpFiles' = tmpFiles \ {Last(log).stem}
    /\ pc' = "crashed"
    /\ UNCHANGED << args, scene, exit_code, now, ret, seg, full_filename_stem,
                    seg_start_time_utc, captureLocals, proc, nread, keep_segment,
                    meta_info_dict, metaFiles, log >>

\* lines 192-196: os.rename / shutil.move raise and nothing catches it.
\* The source is missing, or the file system refuses; shutil.move between two
\* directories may have copied to the target before it failed.
MoveFail ==
    /\ pc = "move"
    /\ \/ /\ Last(log).stem \notin tmpFiles
          /\ exc' = Some("FileNotFoundError")
          /\ UNCHANGED dataFiles
       \/ /\ Last(log).stem \in tmpFiles
          /\ exc' = Some("OSError")
          /\ \E copied \in BOOLEAN :
                /\ copied => ~args.same_dir
                /\ dataFiles' = IF copied THEN dataFiles \cup {Last(log).stem}
                                          ELSE dataFiles
    /\ pc' = "crashed"
    /\ UNCHANGED << args, scene, exit_code, now, ret, seg, full_filename_stem, seg_start_time_utc,
                    captureLocals, proc, nread, keep_segment, meta_info_dict,
                    tmpFiles, metaFiles, log >>

\* lines 198-206 with the assignment of line 199 left out
WriteMetaStaleTime ==
    /\ pc = "meta"
    /\ meta_info_dict' = [datetime |-> meta_info_dict.datetime,
                          max_power_dbfs |-> max_power]
    /\ metaFiles' = WriteFile(metaFiles, Last(log).stem, meta_info_dict')
    /\ log' = [log EXCEPT ![seg].meta = TRUE, ![seg].finished = TRUE]
    /\ pc' = "loop"
    /\ UNCHANGED << args, scene, exit_code, now, ret, exc, seg, full_filename_stem,
                    seg_start_time_utc, captureLocals, proc, nread, keep_segment,
                    tmpFiles, dataFiles >>

\* lines 198-206 followed by a return out of the while loop
WriteMetaThenReturn ==
    /\ pc = "meta"
    /\ meta_info_dict' = [datetime |-> seg_start_time_utc, max_power_dbfs |-> max_power]
    /\ metaFiles' = WriteFile(metaFiles, Last(log).stem, meta_info_dict')
    /\ log' = [log EXCEPT ![seg].meta = TRUE, ![seg].finished = TRUE]
    /\ pc' = "exit"
    /\ UNCHANGED << args, scene, exit_code, now, ret, exc, seg, full_filename_stem,
                    seg_start_time_utc, captureLocals, proc, nread, keep_segment,
                    tmpFiles, dataFiles >>

\* lines 198-206: rewrite the two per-segment fields in place and dump the file
WriteMeta ==
    /\ pc = "meta"
    /\ meta_info_dict' = [datetime |-> seg_start_time_utc, max_power_dbfs |-> max_power]
    /\ metaFiles' = WriteFile(metaFiles, Last(log).stem, meta_info_dict')
    /\ log' = [log EXCEPT ![seg].meta = TRUE, ![seg].finished = TRUE]
    /\ pc' = "loop"
    /\ UNCHANGED << args, scene, exit_code, now, ret, exc, seg, full_filename_stem, seg_start_time_utc,
                    captureLocals, proc, nread, keep_segment, tmpFiles, dataFiles >>

\* lines 207-210 with the os.remove left out
RemoveOkKeepsFile ==
    /\ pc = "remove"
    /\ Last(log).stem \in tmpFiles
    /\ log' = [log EXCEPT ![seg].finished = TRUE]
    /\ pc' = "loop"
    /\ UNCHANGED << args, scene, exit_code, now, ret, exc, seg, full_filename_stem,
                    seg_start_time_utc, captureLocals, proc, nread, keep_segment,
                    meta_info_dict, files >>

\* lines 207-210: os.remove of the temporary file
RemoveOk ==
    /\ pc = "remove"
    /\ Last(log).stem \in tmpFiles
    /\ tmpFiles' = tmpFiles \ {Last(log).stem}
    /\ log' = [log EXCEPT ![seg].finished = TRUE]
    /\ pc' = "loop"
    /\ UNCHANGED << args, scene, exit_code, now, ret, exc, seg, full_filename_stem, seg_start_time_utc,
                    captureLocals, proc, nread, keep_segment, meta_info_dict,
                    dataFiles, metaFiles >>

\* line 210: os.remove raises when the external process never created the file
RemoveFail ==
    /\ pc = "remove"
    /\ Last(log).stem \notin tmpFiles
    /\ exc' = Some("FileNotFoundError")
    /\ pc' = "crashed"
    /\ UNCHANGED << args, scene, exit_code, now, ret, seg, full_filename_stem, seg_start_time_utc,
                    captureLocals, proc, nread, keep_segment, meta_info_dict,
                    files, log >>

\* lines 213-214: main() has returned or raised and the interpreter exits;
\* the value main returned is not passed on, an uncaught exception gives 1
ProcessExit ==
    /\ pc \in {"exit", "crashed"}
    /\ exit_code = None
    /\ exit_code' = IF pc = "crashed" THEN Some(1) ELSE Some(0)
    /\ UNCHANGED << pc, args, scene, now, ret, exc, seg, full_filename_stem,
                    seg_start_time_utc, captureLocals, proc, nread, keep_segment,
                    meta_info_dict, files, log >>

Next ==
    \/ CheckDirsFail
    \/ CheckDirsOk
    \/ BeginSegment
    \/ \E numeric_values \in LinesOf(scene) : ReadLine(numeric_values)
    \/ EndOfStream
    \/ Finalize
    \/ Decide
    \/ MoveOk
    \/ MoveFail
    \/ WriteMeta
    \/ RemoveOk
    \/ RemoveFail
    \/ ProcessExit

Spec == Init /\ [][Next]_vars

\* ------------------------------------------------- vocabulary of the claims
\* the stem of the segment the loop is working on (or has just finished)
CurStem == Last(log).stem

\* capture_one_data_segment has read the exit code of the current segment
Finished == seg >= 1 /\ rc # None

\* the current segment's capture is a Capture Failure
CaptureFailure == Finished /\ (rc # Some(0) \/ step_count = 0)

\* the loop has come back to its head after working on a segment
CycleDone == seg >= 1 /\ pc = "loop"

RECURSIVE SumSeq(_)
SumSeq(q) == IF q = <<>> THEN 0 ELSE q[1] + SumSeq(Tail(q))

RECURSIVE MaxSeq(_)
MaxSeq(q) == IF Len(q) = 1 THEN q[1]
             ELSE LET m == MaxSeq(Tail(q)) IN IF q[1] >= m THEN q[1] ELSE m

\* the accumulator of lines 28-31 folded over the records q as lines 46-50 do
RECURSIVE Accumulate(_)
Accumulate(q) ==
    IF q = <<>>
      THEN [max_power |-> InitMaxPower, total_power |-> 0, step_count |-> 0]
      ELSE LET a == Accumulate(SubSeq(q, 1, Len(q) - 1))
               p == q[Len(q)]
           IN  [max_power |-> NewMax(a.max_power, p),
                total_power |-> a.total_power + p,
                step_count |-> a.step_count + 1]

\* every reordering of the records q
Reorderings(q) ==
    { [i \in 1..Len(q) |-> q[f[i]]] : f \in Permutations(1..Len(q)) }

\* the fractions a and b are the same number
SameFraction(a, b) == a.num * b.den = b.num * a.den

\* ------------------------------------------------------------ type check
TypeOK ==
    /\ pc \in {"main", "exit", "loop", "reading", "exited", "decide", "move",
                "meta", "remove", "crashed"}
    /\ seg \in 0..MaxSegments
    /\ Len(log) = seg
    /\ step_count = Len(fed)
    /\ tmpFiles \subseteq 0..StemOf(MaxClock)
    /\ fed \in Seq(Powers)

\* ------------------------------------------------------------------ claims

\* C1: a segment whose capture process exited with a nonzero code is never
\* promoted to the output directory and never gets a metadata file, whatever
\* telemetry was accumulated before the failure.
C1_FailedCaptureDiscarded ==
    \A i \in 1..Len(log) :
        (log[i].rc # None /\ log[i].rc # Some(0))
            => (~log[i].promoted /\ ~log[i].meta)

\* C2: a metadata file exists in the output directory only if the data file
\* of the same stem exists at its final path, and a segment's metadata is
\* written only after its data file has been moved.
C2_MetaOnlyAfterData ==
    /\ DOMAIN metaFiles \subseteq dataFiles
    /\ \A i \in 1..Len(log) : log[i].meta => log[i].promoted
    /\ pc = "meta" => (CurStem \in dataFiles /\ CurStem \notin tmpFiles)

\* C2 witness: a retained segment has its data file and its metadata file
C2_Witness ==
    /\ CycleDone
    /\ Last(log).meta
    /\ CurStem \in DOMAIN metaFiles
    /\ CurStem \in dataFiles

C4_FailureNeverAborts == ~(CaptureFailure /\ pc = "crashed")

\* C5: a capture that finishes with no valid telemetry record never divides
\* by zero and never reaches the squelch decision with an average of 0.
C5_ZeroSamplesIsAnError ==
    (Finished /\ step_count = 0)
        => /\ exc # Some("ZeroDivisionError")
           /\ pc # "decide"
           /\ ~Last(log).decided

\* C6: after a capture that exited with 0, the segment is retained exactly
\* when max_power - avg_power >= the minimum peak gap or max_power > the
\* squelch threshold; (max -2.0, avg -5.0, squelch -29.0, gap 1.1) is
\* retained and (max -30.0, avg -30.5, squelch -29.0, gap 1.1) is discarded.
C6_RetainIff ==
    (Finished /\ rc = Some(0) /\ Last(log).decided) =>
        /\ keep_segment =
              ( (max_power - args.min_peak_gap_dbfs) * avg_power.den >= avg_power.num
                \/ ~(max_power <= args.squelch_dbfs) )
        /\ Last(log).keep = keep_segment
        /\ ( /\ max_power = -20 /\ SameFraction(avg_power, [num |-> -50, den |-> 1])
              /\ args.squelch_dbfs = -290 /\ args.min_peak_gap_dbfs = 11 )
             => keep_segment
        /\ ( /\ max_power = -300 /\ SameFraction(avg_power, [num |-> -305, den |-> 1])
              /\ args.squelch_dbfs = -290 /\ args.min_peak_gap_dbfs = 11 )
             => ~keep_segment

\* C6 witness: the discarded example has been decided
C6_Witness ==
    /\ Finished /\ rc = Some(0) /\ Last(log).decided
    /\ max_power = -300 /\ SameFraction(avg_power, [num |-> -305, den |-> 1])
    /\ args.squelch_dbfs = -290 /\ args.min_peak_gap_dbfs = 11
    /\ ~keep_segment

\* the retained example of C6 has been decided
C6_RetainedExample ==
    /\ Finished /\ rc = Some(0) /\ Last(log).decided
    /\ max_power = -20 /\ SameFraction(avg_power, [num |-> -50, den |-> 1])
    /\ args.squelch_dbfs = -290 /\ args.min_peak_gap_dbfs = 11
    /\ keep_segment

C9_OtherLineChangesNothing ==
    [][ \A numeric_values \in OtherLines :
            ReadLine(numeric_values) =>
                /\ UNCHANGED << max_power, total_power, step_count,
                                capture_start_utc >>
                /\ pc' = "reading" ]_vars

\* C10: no two segments of one run are given the same file stem.
C10_StemsUnique ==
    \A i, j \in 1..Len(log) : (i # j) => (log[i].stem # log[j].stem)

\* C11: when the move of a retained segment's temporary file fails, the
\* temporary file stays where it was and no metadata file is written for the
\* segment.
C11_FailedMoveLeavesTemp ==
    ( /\ seg >= 1 /\ pc = "crashed"
      /\ Last(log).decided /\ Last(log).keep /\ ~Last(log).promoted ) =>
        /\ ~Last(log).meta
        /\ exc = Some("OSError") => CurStem \in tmpFiles
        /\ exc \in {Some("OSError"), Some("FileNotFoundError")}
        /\ CurStem \in DOMAIN metaFiles =>
              \E j \in 1..(seg - 1) : log[j].stem = CurStem /\ log[j].meta

\* C11 witness: the move has failed and the temporary file is still there
C11_Witness ==
    /\ seg >= 1 /\ pc = "crashed" /\ exc = Some("OSError")
    /\ Last(log).keep /\ ~Last(log).promoted /\ ~Last(log).meta
    /\ CurStem \in tmpFiles
    /\ CurStem \notin DOMAIN metaFiles

\* C12: when the output directory or the temporary directory does not exist
\* at startup, no capture process is ever spawned and no file is created,
\* moved or deleted: the program stops before the loop.
C12_MissingDirStopsBeforeCapture ==
    (~args.out_isdir \/ ~args.tmp_isdir) =>
        /\ pc \in {"main", "exit"}
        /\ seg = 0 /\ log = <<>>
        /\ ~proc.alive /\ proc.returncode = None
        /\ tmpFiles = {} /\ dataFiles = {} /\ metaFiles = NoMeta

\* C12 witness: the temporary directory alone is missing and main has returned
C12_Witness ==
    /\ args.out_isdir /\ ~args.tmp_isdir
    /\ pc = "exit"
    /\ ret = Some(-1)

\* C13: when a configured directory does not exist, the exit code of the
\* program is nonzero.
C13_MissingDirExitsNonzero ==
    ((~args.out_isdir \/ ~args.tmp_isdir) /\ exit_code # None)
        => exit_code # Some(0)

C15_MonotonicInPeak ==
    (seg >= 1 /\ Last(log).decided /\ keep_segment) =>
        \A m \in { max_power + d : d \in 0..MaxRise }
                  \cup { p \in Powers \cup SquelchValues : p >= max_power } :
            KeepDecision(m, avg_power, args.squelch_dbfs, args.min_peak_gap_dbfs)

\* C15 witness: a segment of two records has been retained
C15_Witness ==
    /\ seg >= 1 /\ Last(log).decided /\ keep_segment
    /\ rc = Some(0) /\ Len(fed) = 2
    /\ pc = "move"

\* C16: the exit status of the capture process is set and read only once its
\* output has been read to end-of-stream, and no decision, move or delete of
\* the segment's file happens before that.
C16_DrainedBeforeExitStatus ==
    /\ proc.returncode # None => proc.eof
    /\ seg >= 1 =>
          /\ ( \/ rc # None
               \/ Last(log).decided \/ Last(log).promoted \/ Last(log).finished
               \/ pc \in {"exited", "decide", "move", "meta", "remove"} )
                 => proc.eof
          /\ ~proc.eof =>
                /\ pc = "reading"
                /\ CurStem \notin tmpFiles

\* C16 witness: the exit status was read after lines beyond the startup lines
C16_Witness ==
    /\ seg >= 1 /\ pc = "decide"
    /\ rc = Some(0) /\ proc.eof
    /\ nread > line_count

\* C17 as stated: step_count equals the number of lines with exactly seven
\* numbers read so far in the segment, that is, every line read adds one to
\* step_count when it holds exactly seven numbers and nothing otherwise.
C17_CountsEveryTelemetryLine ==
    [][ \A numeric_values \in LinesOf(scene) :
            ReadLine(numeric_values) =>
                step_count' = step_count +
                    (IF Len(numeric_values) = TelemetryTokens THEN 1 ELSE 0) ]_vars

\* C17 amended: step_count equals the number of lines with exactly seven
\* numbers read after the first seven lines of the segment's output; it
\* starts at 0 with the segment, a line read adds one when it comes after
\* the seven startup lines and holds exactly seven numbers, and nothing else
\* changes it.
C17_CountsTelemetryAfterStartup ==
    [][ /\ \A numeric_values \in LinesOf(scene) :
              ReadLine(numeric_values) =>
                  step_count' = step_count +
                      (IF nread >= SkipThreshold + 1
                          /\ Len(numeric_values) = TelemetryTokens THEN 1 ELSE 0)
        /\ BeginSegment => step_count' = 0
        /\ (pc # "reading" /\ ~BeginSegment) => step_count' = step_count
        /\ (pc = "reading" /\ nread' = nread) => step_count' = step_count ]_vars

\* C17 witness: one telemetry line counted, one later line not counted
C17_Witness ==
    /\ pc = "reading"
    /\ step_count = 1
    /\ nread = line_count + 1

\* C18: the first seven lines of a segment's output are skipped unparsed and
\* every later line is parsed.  The skip phase is over exactly when seven
\* lines have been read and never comes back, although line_count stands
\* still on lines that are not telemetry.
C18_SkipsSevenLinesOnce ==
    seg >= 1 =>
        /\ (line_count >= SkipThreshold + 1) = (nread >= SkipThreshold + 1)
        /\ (capture_start_utc # None) = (nread >= SkipThreshold + 2)
        /\ nread <= SkipThreshold + 1 => (line_count = nread /\ step_count = 0)
        /\ nread >= SkipThreshold + 1 => line_count = SkipThreshold + 1 + step_count

\* C18 witness: two lines that are not telemetry were parsed after the
\* startup lines and line_count did not move
C18_Witness ==
    /\ pc = "reading"
    /\ nread = SkipThreshold + 3
    /\ line_count = SkipThreshold + 1
    /\ capture_start_utc # None

\* C19: at most one capture process is alive at any time, and a segment's
\* capture starts only when every earlier segment has been decided and its
\* file either moved (with its metadata written) or deleted; no move, write
\* or delete runs while a capture process is alive.
C19_OneSegmentAtATime ==
    /\ Cardinality({ i \in 1..Len(log) : log[i].alive }) <= 1
    /\ \A i \in 1..Len(log) :
          log[i].alive => (i = seg /\ proc.alive /\ pc = "reading")
    /\ \A i \in 1..(seg - 1) :
          /\ log[i].decided /\ log[i].finished
          /\ log[i].keep => (log[i].promoted /\ log[i].meta)
          /\ ~log[i].keep => (~log[i].promoted /\ ~log[i].meta)
    /\ pc = "reading" => tmpFiles = {}
    /\ Cardinality(tmpFiles) <= 1
    /\ pc \in {"decide", "move", "meta", "remove"} => ~proc.alive

\* C19 witness: the second capture runs after the first segment was moved
\* and its metadata written
C19_Witness ==
    /\ seg = 2 /\ pc = "reading"
    /\ log[2].alive /\ proc.alive
    /\ log[1].keep /\ log[1].promoted /\ log[1].meta /\ ~log[1].alive

\* C20: a metadata file holds the start time and the max power of the
\* segment it was written for: the file just written holds the values of the
\* current segment, and the start time in every file lies in the second that
\* names the file; the initial values of the structure are never written.
C20_MetaIsOfItsSegment ==
    /\ (seg >= 1 /\ Last(log).meta) =>
          /\ seg_start_time_utc # None
          /\ metaFiles[CurStem] = [datetime |-> seg_start_time_utc,
                                    max_power_dbfs |-> max_power]
          /\ max_power = Accumulate(fed).max_power
    /\ \A s \in DOMAIN metaFiles :
          /\ metaFiles[s].datetime # None
          /\ StemOf(metaFiles[s].datetime[1]) = s
          /\ metaFiles[s].max_power_dbfs \in Powers \cup {InitMaxPower}

\* C20 witness: two retained segments, each file with its own values
C20_Witness ==
    /\ seg = 2 /\ log[1].meta /\ log[2].meta
    /\ log[1].stem # log[2].stem
    /\ metaFiles[log[1].stem].max_power_dbfs # metaFiles[log[2].stem].max_power_dbfs
    /\ metaFiles[log[1].stem].datetime # metaFiles[log[2].stem].datetime

====
